---- MODULE Spec2Model ----
(***************************************************************************)
(* A model of the unified-doc-agent of Divas-Gupta30/mcp: the four-node    *)
(* query workflow of internal/graph (RunWorkflow over RetrieverNode,       *)
(* SummarizerNode, CriticNode, AnswerNode) and the chunker of              *)
(* internal/processing (ChunkText, splitLong).                             *)
(*                                                                         *)
(* Strings are TLC strings where only length and concatenation matter      *)
(* (answers, fragments, lengths in bytes as Go's len), and sequences of    *)
(* runs of one character where the code looks at the characters (the      *)
(* chunker).  An error value is the chain of its messages, outermost       *)
(* first, as fmt.Errorf("...: %w", err) builds it; Nil is no error.        *)
(***************************************************************************)
EXTENDS Integers, Sequences, FiniteSets, TLC

VARIABLES
    \* graph.State (part_002:5-10) and the ctx argument of RunWorkflow
    Query, Docs, Ans, ctx,
    \* RunWorkflow's position: the loop index, where it is, the nodes whose
    \* call has not returned, the error of the last node, its return value
    idx, pc, active, nodeErr, ret,
    \* what the run did: one record per node that returned, the requests
    \* sent to the embedding backend, the index and the generation backend,
    \* the stream the generation backend answered with, the fragments
    \* decoded from it, the answers AnswerNode printed
    hist, embedCalls, searchCalls, genCalls, genStream, fragsRead, printed,
    \* the rows of the documents table, in storage order, and the rows (their
    \* places in the table) the last query returned
    table, picked,
    \* the chunker: the text given to ChunkText or splitLong, the result, the
    \* position
    text, chunks, cpc,
    \* splitLong: its max and overlap arguments, its loop variable i, the
    \* windows [i, end) it has cut
    spMax, spOverlap, spI, windows,
    \* the index command: the files of the walk, the loop's position in them
    \* (from 1), where it is in the body, what it has of the file it took up
    \* last, the lines it logged, whether "Indexing complete." was printed
    files, fidx, ipc, rec, ilog, completed,
    \* the page images in the temporary location (os.TempDir())
    tmpdir,
    \* the weather service: the minutes since it started, the entries of
    \* Redis by key, whether OPENWEATHER_API_KEY is set, the response to the
    \* last request with what the request met
    wclock, wcache, wkey, wresp,
    \* the MCP server: the last request of POST /mcp as decoded, the
    \* response written, the requests sent to a service for it
    mreq, mresp, mcalls

wfVars == <<Query, Docs, Ans, ctx, idx, pc, active, nodeErr, ret,
            hist, embedCalls, searchCalls, genCalls, genStream, fragsRead, printed,
            table, picked>>
chVars == <<text, chunks, cpc>>
spVars == <<spMax, spOverlap, spI, windows>>
inVars == <<files, fidx, ipc, rec, ilog, completed, tmpdir>>
wxVars == <<wclock, wcache, wkey, wresp>>
mcpVars == <<mreq, mresp, mcalls>>
vars == <<wfVars, chVars, spVars, inVars, wxVars, mcpVars>>

(***************************************************************************)
(* Bounds of the model.                                                    *)
(***************************************************************************)
\* the longest generation stream, in fragments
MaxFrags == 3
\* the most rows the index answers a query with
MaxRows == 2
\* the most runs of one character a text given to ChunkText is made of
MaxRuns == 3
\* the longest run of one character in a text given to ChunkText
LongRun == 1800
\* the largest max given to splitLong on its own, and the longest run of one
\* character in the strings given to it then
MaxSplitMax == 4
MaxSplitRun == 3
\* the most files the walk of the index command finds
MaxFiles == 2
\* the most pages of a PDF
MaxPages == 2
\* the minutes the weather service is followed for
MaxClock == 11

(***************************************************************************)
(* Errors.                                                                 *)
(***************************************************************************)
Nil == <<>>

\* fmt.Errorf(msg + ": %w", err)
Wrap(msg, err) == <<msg>> \o err

(***************************************************************************)
(* Embedding (internal/processing).                                        *)
(***************************************************************************)
EmbeddingDim == 768

\* What the embedding backend can answer one request with: no connection, a
\* status other than 200, a body that is not the expected JSON, or an
\* embedding of some length.
EmbedResponses ==
    {[kind |-> "neterr"], [kind |-> "status"], [kind |-> "badjson"]}
    \cup {[kind |-> "ok", dim |-> d] : d \in {EmbeddingDim - 1, EmbeddingDim, EmbeddingDim + 1}}

\* The vector the backend computes for a text: the text it is the embedding
\* of, and its number of components.
Vector(txt, dim) == [of |-> txt, dim |-> dim]

\* The request getOllamaEmbedding sends, with the answer it got
EmbedCall(txt, resp) == [Model |-> "nomic-embed-text", Prompt |-> txt, resp |-> resp]

\* getOllamaEmbedding returning whatever the backend sent, of any length
getOllamaEmbeddingNoDimCheck(txt, resp) ==
    CASE resp.kind = "neterr"  -> [vec |-> <<>>, err |-> Wrap("request failed", <<"net">>)]
      [] resp.kind = "status"  -> [vec |-> <<>>, err |-> <<"ollama error: body">>]
      [] resp.kind = "badjson" -> [vec |-> <<>>, err |-> Wrap("failed decode response", <<"json">>)]
      [] resp.kind = "ok" -> [vec |-> Vector(txt, resp.dim), err |-> Nil]

\* getOllamaEmbedding, given the backend's answer: [vec, err]
getOllamaEmbedding(txt, resp) ==
    CASE resp.kind = "neterr"  -> [vec |-> <<>>, err |-> Wrap("request failed", <<"net">>)]
      [] resp.kind = "status"  -> [vec |-> <<>>, err |-> <<"ollama error: body">>]
      [] resp.kind = "badjson" -> [vec |-> <<>>, err |-> Wrap("failed decode response", <<"json">>)]
      [] resp.kind = "ok" ->
            IF resp.dim # EmbeddingDim
            THEN [vec |-> <<>>, err |-> <<"expected embedding dim", EmbeddingDim, "got", resp.dim>>]
            ELSE [vec |-> Vector(txt, resp.dim), err |-> Nil]

\* QueryEmbedding asking the backend whatever the query is
QueryEmbeddingNoEmptyCheck(query, resp) ==
    [vec |-> getOllamaEmbedding(query, resp).vec,
     err |-> getOllamaEmbedding(query, resp).err,
     calls |-> <<EmbedCall(query, resp)>>]

\* QueryEmbedding: [vec, err, calls], calls the requests it sent to the
\* backend, each with the answer it got
QueryEmbedding(query, resp) ==
    IF query = ""
    THEN [vec |-> <<>>, err |-> <<"empty query">>, calls |-> <<>>]
    ELSE [vec |-> getOllamaEmbedding(query, resp).vec,
          err |-> getOllamaEmbedding(query, resp).err,
          calls |-> <<EmbedCall(query, resp)>>]

\* EmbedChunks from item i on, out and calls what it has so far, putting
\* each vector in front of the ones it has
RECURSIVE EmbedFromReversed(_, _, _, _, _)
EmbedFromReversed(chunkList, resps, i, out, calls) ==
    IF i > Len(chunkList) THEN [out |-> out, err |-> Nil, calls |-> calls]
    ELSE LET e == getOllamaEmbedding(chunkList[i], resps[i])
             sent == Append(calls, EmbedCall(chunkList[i], resps[i]))
         IN  IF e.err # Nil
             THEN [out |-> <<>>, err |-> <<"failed embedding chunk", i - 1>> \o e.err,
                   calls |-> sent]
             ELSE EmbedFromReversed(chunkList, resps, i + 1, <<e.vec>> \o out, sent)

\* EmbedChunks from item i on, going on to the next item after a failure and
\* returning the vectors it has
RECURSIVE EmbedFromGoOn(_, _, _, _, _)
EmbedFromGoOn(chunkList, resps, i, out, calls) ==
    IF i > Len(chunkList) THEN [out |-> out, err |-> Nil, calls |-> calls]
    ELSE LET e == getOllamaEmbedding(chunkList[i], resps[i])
             sent == Append(calls, EmbedCall(chunkList[i], resps[i]))
         IN  IF e.err # Nil
             THEN EmbedFromGoOn(chunkList, resps, i + 1, out, sent)
             ELSE EmbedFromGoOn(chunkList, resps, i + 1, Append(out, e.vec), sent)

\* The loop of EmbedChunks from item i on (i counts from 1 here, the index
\* in the error is Go's, from 0); resps[i] is the backend's answer to the
\* request for item i, should it be sent.
RECURSIVE EmbedFrom(_, _, _, _, _)
EmbedFrom(chunkList, resps, i, out, calls) ==
    IF i > Len(chunkList) THEN [out |-> out, err |-> Nil, calls |-> calls]
    ELSE LET e == getOllamaEmbedding(chunkList[i], resps[i])
             sent == Append(calls, EmbedCall(chunkList[i], resps[i]))
         IN  IF e.err # Nil
             THEN [out |-> <<>>, err |-> <<"failed embedding chunk", i - 1>> \o e.err,
                   calls |-> sent]
             ELSE EmbedFrom(chunkList, resps, i + 1, Append(out, e.vec), sent)

RECURSIVE EmbedAnswers(_)
\* What the backend can answer the requests for n items with, one answer
\* per item: the answers after the first one that getOllamaEmbedding
\* refuses are never asked for, and are taken to repeat it.
EmbedAnswers(n) ==
    IF n = 0 THEN {<<>>}
    ELSE {<<x>> \o rest : x \in {r \in EmbedResponses : getOllamaEmbedding(<<>>, r).err = Nil},
                          rest \in EmbedAnswers(n - 1)}
         \cup {[k \in 1..n |-> x] :
                    x \in {r \in EmbedResponses : getOllamaEmbedding(<<>>, r).err # Nil}}

\* EmbedChunks without the check for no chunks
EmbedChunksNoEmptyCheck(chunkList, resps) == EmbedFrom(chunkList, resps, 1, <<>>, <<>>)

\* EmbedChunks: [out, err, calls]
EmbedChunks(chunkList, resps) ==
    IF Len(chunkList) = 0
    THEN [out |-> <<>>, err |-> <<"no chunks">>, calls |-> <<>>]
    ELSE EmbedFrom(chunkList, resps, 1, <<>>, <<>>)

(***************************************************************************)
(* The index (internal/storage).                                           *)
(***************************************************************************)
Documents == {[Filename |-> "a.txt", Content |-> "alpha"],
              [Filename |-> "b.md", Content |-> "beta"]}

RECURSIVE SeqsUpTo(_, _)
\* the sequences over S of length at most n
SeqsUpTo(S, n) ==
    IF n = 0 THEN {<<>>}
    ELSE LET shorter == SeqsUpTo(S, n - 1)
         IN  shorter \cup {Append(q, x) : q \in {r \in shorter : Len(r) = n - 1}, x \in S}

\* the distance <-> between the query vector and the stored vector of a
\* document
Distance(doc) == IF doc.Content = "alpha" THEN 2 ELSE 1

RECURSIVE OrderByDistance(_, _)
\* ORDER BY embedding <-> $1 over the rows at the places left: the orders
\* the database can return them in, rows at the same distance in any order
OrderByDistance(rows, left) ==
    IF left = {} THEN {<<>>}
    ELSE UNION {{<<i>> \o rest : rest \in OrderByDistance(rows, left \ {i})} :
                  i \in {j \in left : \A h \in left : Distance(rows[j]) <= Distance(rows[h])}}

\* the places of the rows SELECT ... ORDER BY embedding <-> $1 LIMIT topK
\* returns
SqlSelect(rows, topK) ==
    {SubSeq(o, 1, IF topK < Len(o) THEN topK ELSE Len(o)) :
        o \in OrderByDistance(rows, 1..Len(rows))}

\* What the database can answer one query with: the query fails, a row
\* fails to scan, or the rows selected come; the stream of rows may break
\* after any of them, rows.Next() then returning false and rows.Err() the
\* error.
DbOutcomes(topK) ==
    {[kind |-> "queryerr"], [kind |-> "scanerr"]}
    \cup UNION {{[kind |-> "rows", picked |-> SubSeq(sel, 1, n),
                  rows |-> [k \in 1..n |-> table[sel[k]]], rowsErr |-> n < Len(sel)] :
                    n \in 0..Len(sel)} :
                sel \in SqlSelect(table, topK)}

\* QuerySimilar, given the database's answer: [docs, err]
QuerySimilar(db) ==
    CASE db.kind = "queryerr" -> [docs |-> <<>>, err |-> Wrap("query failed", <<"pg">>)]
      [] db.kind = "scanerr"  -> [docs |-> <<>>, err |-> <<"scan">>]
      [] db.kind = "rows"     -> [docs |-> db.rows, err |-> Nil]

\* SearchImpl: each document as "File: <name>\n<content>"
SearchImpl(db) ==
    LET q == QuerySimilar(db)
    IN  IF q.err # Nil
        THEN [docs |-> <<>>, err |-> q.err]
        ELSE [docs |-> [k \in 1..Len(q.docs) |->
                          "File: " \o q.docs[k].Filename \o "\n" \o q.docs[k].Content],
              err |-> Nil]

(***************************************************************************)
(* Strings of the chunker.  A string is the sequence of its maximal runs,  *)
(* each [c |-> character, n |-> length >= 1], adjacent runs of different   *)
(* characters: <<>> is "", <<[c |-> "a", n |-> 3]>> is "aaa".  The         *)
(* operators below are Go's len, s[i:j], strings.TrimSpace and             *)
(* regexp.Split on this representation.                                    *)
(***************************************************************************)
\* unicode.IsSpace, on the characters of the model
IsSpace(c) == c \in {" ", "\n", "\t", "\r"}

RECURSIVE StrLen(_)
\* len(s)
StrLen(s) == IF s = <<>> THEN 0 ELSE Head(s).n + StrLen(Tail(s))

RECURSIVE Slice(_, _, _)
\* s[i:j], for 0 <= i <= j <= len(s)
Slice(s, i, j) ==
    IF s = <<>> \/ j <= 0
    THEN <<>>
    ELSE LET h == Head(s)
             lo == IF i > 0 THEN i ELSE 0
             hi == IF j < h.n THEN j ELSE h.n
             rest == Slice(Tail(s), i - h.n, j - h.n)
         IN  IF hi > lo THEN <<[c |-> h.c, n |-> hi - lo]>> \o rest ELSE rest

RECURSIVE TrimLeft(_)
TrimLeft(s) ==
    IF s # <<>> /\ IsSpace(Head(s).c) THEN TrimLeft(Tail(s)) ELSE s

RECURSIVE TrimRight(_)
TrimRight(s) ==
    IF s # <<>> /\ IsSpace(s[Len(s)].c) THEN TrimRight(SubSeq(s, 1, Len(s) - 1)) ELSE s

\* strings.TrimSpace(s)
TrimSpace(s) == TrimRight(TrimLeft(s))

\* a match of \n{2,}: the regexp is greedy, so a match is a whole run
IsSeparator(run) == run.c = "\n" /\ run.n >= 2

RECURSIVE SplitFrom(_, _, _)
\* the substrings of the runs of s from k on between the matches, cur the
\* substring before run k that no match has ended yet
SplitFrom(s, k, cur) ==
    IF k > Len(s) THEN <<cur>>
    ELSE IF IsSeparator(s[k]) THEN <<cur>> \o SplitFrom(s, k + 1, <<>>)
    ELSE SplitFrom(s, k + 1, Append(cur, s[k]))

\* regexp.MustCompile(`\n{2,}`).Split(text, -1)
Split(s) == SplitFrom(s, 1, <<>>)

(***************************************************************************)
(* The chunker (internal/processing/chunker.go).                           *)
(***************************************************************************)
ChunkMax == 1000

ChunkOverlap == 200

\* NextOffset stepping by the overlap
NextOffsetByOverlap(i, max, overlap) == i + overlap

\* NextOffset stepping by max, the windows not overlapping
NextOffsetByMax(i, max, overlap) == i + max

\* i += (max - overlap)
NextOffset(i, max, overlap) == i + (max - overlap)

\* one pass of the loop body at offset i: the window [i, end) and the chunk
\* appended to res
splitLongWindow(s, max, i) ==
    LET end == IF i + max > StrLen(s) THEN StrLen(s) ELSE i + max
    IN  [i |-> i, end |-> end, chunk |-> TrimSpace(Slice(s, i, end))]

RECURSIVE splitLongFrom(_, _, _, _)
\* the loop of splitLong from offset i on
splitLongFrom(s, max, overlap, i) ==
    IF ~(i < StrLen(s)) THEN <<>>
    ELSE LET w == splitLongWindow(s, max, i)
         IN  IF w.end = StrLen(s) THEN <<w.chunk>>
             ELSE <<w.chunk>> \o splitLongFrom(s, max, overlap, NextOffset(i, max, overlap))

\* splitLong never splitting
splitLongWhole(s, max, overlap) == <<s>>

splitLong(s, max, overlap) ==
    IF StrLen(s) <= max THEN <<s>> ELSE splitLongFrom(s, max, overlap, 0)

RECURSIVE ChunkParasNoTrim(_, _)
\* ChunkParas without the trim of the paragraph
ChunkParasNoTrim(paras, k) ==
    IF k > Len(paras) THEN <<>>
    ELSE LET p == paras[k]
         IN  IF p = <<>> THEN ChunkParasNoTrim(paras, k + 1)
             ELSE splitLong(p, ChunkMax, ChunkOverlap) \o ChunkParasNoTrim(paras, k + 1)

RECURSIVE ChunkParas(_, _)
\* the loop of ChunkText over the paragraphs from k on
ChunkParas(paras, k) ==
    IF k > Len(paras) THEN <<>>
    ELSE LET p == TrimSpace(paras[k])
         IN  IF p = <<>> THEN ChunkParas(paras, k + 1)
             ELSE splitLong(p, ChunkMax, ChunkOverlap) \o ChunkParas(paras, k + 1)

ChunkText(t) == ChunkParas(Split(t), 1)

\* the characters and the run lengths of the texts given to ChunkText
ChunkChars == {"a", "b", " ", "\n"}

RunLens == {1, 2, ChunkMax - 1, LongRun}

RECURSIVE TextsOf(_)
\* the strings of exactly n runs
TextsOf(n) ==
    IF n = 0 THEN {<<>>}
    ELSE LET longer == {Append(q, [c |-> ch, n |-> len]) :
                          q \in TextsOf(n - 1), ch \in ChunkChars, len \in RunLens}
         IN  {q \in longer : Len(q) < 2 \/ q[Len(q)].c # q[Len(q) - 1].c}

ChunkTexts == UNION {TextsOf(n) : n \in 0..MaxRuns}

\* main's call processing.ChunkText(text) (cmd/agent/main.go:51)
ChunkTextCall ==
    /\ cpc = "start"
    /\ chunks' = ChunkText(text)
    /\ cpc' = "done"
    /\ UNCHANGED text

ChunkInit == text \in ChunkTexts /\ chunks = <<>> /\ cpc = "start"

(***************************************************************************)
(* splitLong on its own, one pass of its loop at a time.                   *)
(***************************************************************************)
RECURSIVE SmallTextsOf(_)
\* the strings of exactly n runs of "a" and " ", each of at most MaxSplitRun
SmallTextsOf(n) ==
    IF n = 0 THEN {<<>>}
    ELSE LET longer == {Append(q, [c |-> ch, n |-> len]) :
                          q \in SmallTextsOf(n - 1), ch \in {"a", " "}, len \in 1..MaxSplitRun}
         IN  {q \in longer : Len(q) < 2 \/ q[Len(q)].c # q[Len(q) - 1].c}

\* the paragraphs ChunkText gives to splitLong for the texts of ChunkTexts
ChunkParagraphs ==
    UNION {{TrimSpace(Split(t)[k]) : k \in 1..Len(Split(t))} : t \in ChunkTexts} \ {<<>>}

\* The calls of splitLong: short strings with every small max and every
\* overlap up to max (overlap = max is the case the loop never leaves), and
\* ChunkText's calls.
SplitCalls ==
    {[s |-> t, max |-> m, overlap |-> o] :
        t \in UNION {SmallTextsOf(n) : n \in 0..MaxRuns},
        m \in 1..MaxSplitMax, o \in 0..MaxSplitMax}
    \cup {[s |-> t, max |-> ChunkMax, overlap |-> ChunkOverlap] : t \in ChunkParagraphs}

SplitInit ==
    /\ \E c \in {d \in SplitCalls : d.overlap <= d.max} :
         text = c.s /\ spMax = c.max /\ spOverlap = c.overlap
    /\ chunks = <<>>
    /\ cpc = "start"
    /\ spI = 0
    /\ windows = <<>>

\* if len(s) <= max { return []string{s} }; i := 0
SplitLongCall ==
    /\ cpc = "start"
    /\ IF StrLen(text) <= spMax
       THEN chunks' = <<text>> /\ cpc' = "done"
       ELSE chunks' = <<>> /\ cpc' = "loop"
    /\ UNCHANGED <<text, spMax, spOverlap, spI, windows>>

\* One pass of the loop.  A run that no window ends is cut off after more
\* windows than the string has characters, which no run that ends needs.
SplitLongStep ==
    /\ cpc = "loop"
    /\ Len(windows) <= StrLen(text)
    /\ IF ~(spI < StrLen(text))
       THEN cpc' = "done" /\ UNCHANGED <<chunks, windows, spI>>
       ELSE LET w == splitLongWindow(text, spMax, spI)
            IN  /\ chunks' = Append(chunks, w.chunk)
                /\ windows' = Append(windows, [i |-> w.i, end |-> w.end])
                /\ IF w.end = StrLen(text)
                   THEN cpc' = "done" /\ UNCHANGED spI
                   ELSE cpc' = "loop" /\ spI' = NextOffset(spI, spMax, spOverlap)
    /\ UNCHANGED <<text, spMax, spOverlap>>

(***************************************************************************)
(* The generation stream (graph/summarizer).                               *)
(***************************************************************************)
\* the texts a fragment can carry: empty, 24 and 25 bytes
FragTexts == {"", "abcdefghijklmnopqrstuvwx", "ABCDEFGHIJKLMNOPQRSTUVWXY"}

\* a value of the stream that does not decode into an ollamaResponse
BadFrag == [bad |-> TRUE]

Fragments == {[bad |-> FALSE, Response |-> t, Done |-> d] : t \in FragTexts, d \in BOOLEAN}
             \cup {BadFrag}

Streams == SeqsUpTo(Fragments, MaxFrags)

RECURSIVE ReadStreamNoStop(_, _, _)
\* ReadStream without the break on chunk.Done
ReadStreamNoStop(stream, k, acc) ==
    IF k > Len(stream)
    THEN [summary |-> acc, read |-> k - 1, err |-> Nil, done |-> FALSE]
    ELSE IF stream[k].bad
    THEN [summary |-> acc, read |-> k - 1,
          err |-> Wrap("decoding ollama response", <<"json">>), done |-> FALSE]
    ELSE ReadStreamNoStop(stream, k + 1, acc \o stream[k].Response)

RECURSIVE ReadStreamEofOnBad(_, _, _)
\* ReadStream breaking on any decode error as it does on io.EOF
ReadStreamEofOnBad(stream, k, acc) ==
    IF k > Len(stream) \/ stream[k].bad
    THEN [summary |-> acc, read |-> k - 1, err |-> Nil, done |-> FALSE]
    ELSE IF stream[k].Done
    THEN [summary |-> acc \o stream[k].Response, read |-> k, err |-> Nil, done |-> TRUE]
    ELSE ReadStreamEofOnBad(stream, k + 1, acc \o stream[k].Response)

RECURSIVE ReadStream(_, _, _)
\* The decode loop from fragment k on, summary so far acc: [summary, read,
\* err, done], read the fragments decoded, done whether a fragment with
\* Done ended the loop.
ReadStream(stream, k, acc) ==
    IF k > Len(stream)
    THEN \* io.EOF: break
         [summary |-> acc, read |-> k - 1, err |-> Nil, done |-> FALSE]
    ELSE IF stream[k].bad
    THEN [summary |-> acc, read |-> k - 1,
          err |-> Wrap("decoding ollama response", <<"json">>), done |-> FALSE]
    ELSE IF stream[k].Done
    THEN [summary |-> acc \o stream[k].Response, read |-> k, err |-> Nil, done |-> TRUE]
    ELSE ReadStream(stream, k + 1, acc \o stream[k].Response)

(***************************************************************************)
(* The nodes (internal/graph).                                             *)
(***************************************************************************)
NoDocsAnswer == "No documents found matching the query."

CriticSuffix == "\n\n(Note: result short; consider rephrasing your query or indexing more documents.)"

CriticThreshold == 50

\* CriticAns with a lower threshold
CriticAnsLowThreshold(ans) ==
    IF Len(ans) < 30 THEN ans \o CriticSuffix ELSE ans

\* CriticAns with <= for <
CriticAnsInclusive(ans) ==
    IF Len(ans) <= CriticThreshold THEN ans \o CriticSuffix ELSE ans

\* CriticNode's effect on s.Ans
CriticAns(ans) ==
    IF Len(ans) < CriticThreshold THEN ans \o CriticSuffix ELSE ans

TopK == 5

Nodes == <<"RetrieverNode", "SummarizerNode", "CriticNode", "AnswerNode">>

\* a node returns err to RunWorkflow's loop
NodeReturns(node, err) ==
    /\ nodeErr' = err
    /\ active' = active \ {node}
    /\ hist' = Append(hist, [node |-> node, ansIn |-> Ans, docsIn |-> Docs, err |-> err])
    /\ pc' = "ret"

\* SummarizerNode without the check for no documents
NoDocumentsNever(docs) == FALSE

\* len(s.Docs) == 0
NoDocuments(docs) == Len(docs) = 0

InNode(node) == pc = "node" /\ idx \in 1..Len(Nodes) /\ Nodes[idx] = node

\* RetrieverNode calling the search before it looks at the embedding's error
RetrieverNodeSearchFirst ==
    /\ InNode("RetrieverNode")
    /\ \E resp \in EmbedResponses, db \in DbOutcomes(TopK) :
         LET e == QueryEmbedding(Query, resp)
             r == SearchImpl(db)
         IN  /\ embedCalls' = embedCalls \o e.calls
             /\ searchCalls' = Append(searchCalls, [vec |-> e.vec, topK |-> TopK])
             /\ picked' = IF e.err = Nil /\ r.err = Nil THEN db.picked ELSE picked
             /\ IF e.err # Nil
                THEN /\ NodeReturns("RetrieverNode", e.err)
                     /\ UNCHANGED Docs
                ELSE IF r.err # Nil
                THEN /\ NodeReturns("RetrieverNode", r.err)
                     /\ UNCHANGED Docs
                ELSE /\ Docs' = r.docs
                     /\ NodeReturns("RetrieverNode", Nil)
    /\ UNCHANGED <<Query, table, Ans, ctx, idx, ret, genCalls, genStream, fragsRead, printed>>

RetrieverNode ==
    /\ InNode("RetrieverNode")
    /\ \E resp \in EmbedResponses, db \in DbOutcomes(TopK) :
         LET e == QueryEmbedding(Query, resp)
             r == SearchImpl(db)
         IN  /\ embedCalls' = embedCalls \o e.calls
             /\ IF e.err # Nil
                THEN /\ NodeReturns("RetrieverNode", e.err)
                     /\ UNCHANGED <<Docs, searchCalls, picked>>
                ELSE /\ searchCalls' = Append(searchCalls, [vec |-> e.vec, topK |-> TopK])
                     /\ IF r.err # Nil
                        THEN /\ NodeReturns("RetrieverNode", r.err)
                             /\ UNCHANGED <<Docs, picked>>
                        ELSE /\ Docs' = r.docs
                             /\ picked' = db.picked
                             /\ NodeReturns("RetrieverNode", Nil)
    /\ UNCHANGED <<Query, table, Ans, ctx, idx, ret, genCalls, genStream, fragsRead, printed>>

SummarizerNode ==
    /\ InNode("SummarizerNode")
    /\ IF NoDocuments(Docs)
       THEN /\ Ans' = NoDocsAnswer
            /\ NodeReturns("SummarizerNode", Nil)
            /\ UNCHANGED <<genCalls, genStream, fragsRead>>
       ELSE IF ctx = "nil"
       THEN \* http.NewRequestWithContext refuses a nil context
            /\ NodeReturns("SummarizerNode", Wrap("creating ollama request", <<"nil Context">>))
            /\ UNCHANGED <<Ans, genCalls, genStream, fragsRead>>
       ELSE /\ genCalls' = Append(genCalls, [Model |-> "llama3", query |-> Query, docs |-> Docs])
            /\ \/ \* http.DefaultClient.Do fails
                  /\ NodeReturns("SummarizerNode", Wrap("calling ollama", <<"net">>))
                  /\ UNCHANGED <<Ans, genStream, fragsRead>>
               \/ \E stream \in Streams :
                    LET r == ReadStream(stream, 1, "")
                    IN  /\ genStream' = stream
                        /\ fragsRead' = r.read
                        /\ IF r.err # Nil
                           THEN /\ NodeReturns("SummarizerNode", r.err)
                                /\ UNCHANGED Ans
                           ELSE /\ Ans' = r.summary
                                /\ NodeReturns("SummarizerNode", Nil)
    /\ UNCHANGED <<Query, table, Docs, ctx, idx, ret, embedCalls, searchCalls, picked, printed>>

CriticNode ==
    /\ InNode("CriticNode")
    /\ Ans' = CriticAns(Ans)
    /\ NodeReturns("CriticNode", Nil)
    /\ UNCHANGED <<Query, table, Docs, ctx, idx, ret, embedCalls, searchCalls, picked, genCalls,
                   genStream, fragsRead, printed>>

AnswerNode ==
    /\ InNode("AnswerNode")
    /\ printed' = Append(printed, Ans)
    /\ NodeReturns("AnswerNode", Nil)
    /\ UNCHANGED <<Query, table, Docs, Ans, ctx, idx, ret, embedCalls, searchCalls, picked, genCalls,
                   genStream, fragsRead>>

(***************************************************************************)
(* RunWorkflow.                                                            *)
(***************************************************************************)
\* the loop calls the next node: n(ctx, s)
CallNode ==
    /\ pc = "loop"
    /\ idx <= Len(Nodes)
    /\ active' = active \cup {Nodes[idx]}
    /\ pc' = "node"
    /\ UNCHANGED <<Query, table, Docs, Ans, ctx, idx, nodeErr, ret, hist, embedCalls, searchCalls, picked,
                   genCalls, genStream, fragsRead, printed>>

\* AfterNode going on to the next node whatever the node returned
AfterNodeContinue ==
    /\ pc = "ret"
    /\ idx' = idx + 1
    /\ pc' = "loop"
    /\ UNCHANGED <<Query, table, Docs, Ans, ctx, active, nodeErr, ret, hist, embedCalls, searchCalls, picked,
                   genCalls, genStream, fragsRead, printed>>

\* AfterNode returning the node's error wrapped
AfterNodeWrap ==
    /\ pc = "ret"
    /\ IF nodeErr # Nil
       THEN /\ ret' = Wrap("workflow", nodeErr)
            /\ pc' = "done"
            /\ UNCHANGED idx
       ELSE /\ idx' = idx + 1
            /\ pc' = "loop"
            /\ UNCHANGED ret
    /\ UNCHANGED <<Query, table, Docs, Ans, ctx, active, nodeErr, hist, embedCalls, searchCalls, picked,
                   genCalls, genStream, fragsRead, printed>>

\* if err := n(ctx, s); err != nil { return err }
AfterNode ==
    /\ pc = "ret"
    /\ IF nodeErr # Nil
       THEN /\ ret' = nodeErr
            /\ pc' = "done"
            /\ UNCHANGED idx
       ELSE /\ idx' = idx + 1
            /\ pc' = "loop"
            /\ UNCHANGED ret
    /\ UNCHANGED <<Query, table, Docs, Ans, ctx, active, nodeErr, hist, embedCalls, searchCalls, picked,
                   genCalls, genStream, fragsRead, printed>>

\* return nil
ReturnNil ==
    /\ pc = "loop"
    /\ idx > Len(Nodes)
    /\ ret' = Nil
    /\ pc' = "done"
    /\ UNCHANGED <<Query, table, Docs, Ans, ctx, idx, active, nodeErr, hist, embedCalls, searchCalls, picked,
                   genCalls, genStream, fragsRead, printed>>

\* the state a caller hands to RunWorkflow (cmd/agent/main.go:72-79), with
\* any query and context
WorkflowInit ==
    /\ Query \in {"", "what is alpha"}
    /\ table \in SeqsUpTo(Documents, MaxRows)
    /\ picked = <<>>
    /\ ctx \in {"background", "nil"}
    /\ Docs = <<>>
    /\ Ans = ""
    /\ idx = 1
    /\ pc = "loop"
    /\ active = {}
    /\ nodeErr = Nil
    /\ ret = Nil
    /\ hist = <<>>
    /\ embedCalls = <<>>
    /\ searchCalls = <<>>
    /\ genCalls = <<>>
    /\ genStream = <<>>
    /\ fragsRead = 0
    /\ printed = <<>>

(***************************************************************************)
(* The index command (cmd/agent/main.go), one step of the loop body at a   *)
(* time.                                                                   *)
(***************************************************************************)
\* The files a walk can find, in its (lexical) order; a path is its name
\* without the extension, and the extension as filepath.Ext returns it
Paths ==
    << [name |-> "docs/a", ext |-> ".pdf"], [name |-> "docs/b", ext |-> ".PDF"],
       [name |-> "docs/c", ext |-> ".png"], [name |-> "docs/d", ext |-> ".txt"] >>

\* strings.ToLower on the extensions of the model
ToLower(ext) == CASE ext = ".PDF" -> ".pdf" [] OTHER -> ext

\* the letter the text of a file is written in, a different one for each
FileChar(path) ==
    CASE path.name = "docs/a" -> "a"
      [] path.name = "docs/b" -> "b"
      [] path.name = "docs/c" -> "c"
      [] OTHER -> "d"

\* the string of n times the character c
Str(c, n) == IF n = 0 THEN <<>> ELSE <<[c |-> c, n |-> n]>>

\* s + t
Cat(s, t) ==
    IF s = <<>> THEN t
    ELSE IF t = <<>> THEN s
    ELSE IF s[Len(s)].c = Head(t).c
    THEN SubSeq(s, 1, Len(s) - 1) \o <<[c |-> Head(t).c, n |-> s[Len(s)].n + Head(t).n]>> \o Tail(t)
    ELSE s \o t

\* The texts a .txt or .md file can hold: "", " ", "a", "a\n\nb" and
\* "b", LongRun spaces, "a"
IngestTexts ==
    { <<>>,
      <<[c |-> " ", n |-> 1]>>,
      <<[c |-> "a", n |-> 1]>>,
      <<[c |-> "a", n |-> 1], [c |-> "\n", n |-> 2], [c |-> "b", n |-> 1]>>,
      <<[c |-> "b", n |-> 1], [c |-> " ", n |-> LongRun], [c |-> "a", n |-> 1]>> }

\* An image: the file it is, the PDF and the page it shows.  The page
\* images of pdftoppm are named by their page number (uda_pdfimg-<k>.png).
PageImage(pdf, k) == [name |-> k, pdf |-> pdf, page |-> k]

ImageFile(path) == [name |-> path, pdf |-> path, page |-> 1]

\* What recognition can do with an image: fail, find no text, find its text
TesseractOutcomes == {"fail", "blank", "text"}

\* ... with a page image of pdftoppm, in the runs of the model: fail or
\* find its text
PageOutcomes == {"fail", "text"}

\* runTesseract: [text, err]; an image of page k reads as k letters of its
\* file and a line feed
runTesseract(img, outcome) ==
    CASE outcome = "fail"  -> [text |-> <<>>, err |-> <<"tesseract">>]
      [] outcome = "blank" -> [text |-> TrimSpace(Str("\n", 1)), err |-> Nil]
      [] outcome = "text"  ->
            [text |-> TrimSpace(Cat(Str(FileChar(img.pdf), img.page), Str("\n", 1))),
             err |-> Nil]

\* pdftoppm -png path tmpPrefix, for a PDF of n pages: the temporary
\* location after it
Pdftoppm(path, n, tmp) ==
    {img \in tmp : img.name \notin 1..n} \cup {PageImage(path, k) : k \in 1..n}

RECURSIVE Glob(_)
\* filepath.Glob(tmpPrefix + "-*.png"): the images, sorted by name
Glob(tmp) ==
    IF tmp = {} THEN <<>>
    ELSE LET first == CHOOSE img \in tmp : \A other \in tmp : img.name <= other.name
         IN  <<first>> \o Glob(tmp \ {first})

\* the loop over the matches ending at the first page that fails
RECURSIVE ocrPagesStopAtFailure(_, _, _, _, _)
ocrPagesStopAtFailure(matches, ocr, k, combined, tried) ==
    IF k > Len(matches) THEN [combined |-> combined, tried |-> tried]
    ELSE LET t == runTesseract(matches[k], ocr[matches[k].name])
         IN  IF t.err # Nil
             THEN [combined |-> combined, tried |-> Append(tried, [img |-> matches[k], text |-> t.text, err |-> t.err])]
             ELSE ocrPagesStopAtFailure(matches, ocr, k + 1,
                                        Cat(Cat(combined, t.text), Str("\n", 1)),
                                        Append(tried, [img |-> matches[k], text |-> t.text, err |-> t.err]))

\* The loop of ExtractTextWithOCR over the matches from the k-th on:
\* [combined, tried], tried the images given to runTesseract with what it
\* returned; ocr[name] is what recognition does with the image of that name.
RECURSIVE ocrPages(_, _, _, _, _)
ocrPages(matches, ocr, k, combined, tried) ==
    IF k > Len(matches) THEN [combined |-> combined, tried |-> tried]
    ELSE LET t == runTesseract(matches[k], ocr[matches[k].name])
         IN  IF t.err # Nil
             THEN ocrPages(matches, ocr, k + 1, combined, Append(tried, [img |-> matches[k], text |-> t.text, err |-> t.err]))
             ELSE ocrPages(matches, ocr, k + 1,
                           Cat(Cat(combined, t.text), Str("\n", 1)),
                           Append(tried, [img |-> matches[k], text |-> t.text, err |-> t.err]))

\* ExtractTextWithOCR: [text, err, tmp, matches, tried], tmp the temporary
\* location when it returns
ExtractTextWithOCR(path, env, tmp) ==
    IF ToLower(path.ext) = ".pdf"
    THEN IF env.ppmErr
         THEN [text |-> <<>>, err |-> Wrap("pdftoppm convert failed", <<"exec">>),
               tmp |-> tmp, matches |-> <<>>, tried |-> <<>>]
         ELSE LET after == Pdftoppm(path, env.pages, tmp)
                  r == ocrPages(Glob(after), env.ocr, 1, <<>>, <<>>)
              IN  [text |-> TrimSpace(r.combined), err |-> Nil,
                   tmp |-> after, matches |-> Glob(after), tried |-> r.tried]
    ELSE LET t == runTesseract(ImageFile(path), env.img)
         IN  [text |-> t.text, err |-> t.err, tmp |-> tmp,
              matches |-> <<>>,
              tried |-> <<[img |-> ImageFile(path), text |-> t.text, err |-> t.err]>>]

\* ExtractTextFromPDF: [text, err]
ExtractTextFromPDF(layer) ==
    IF layer.openErr THEN [text |-> <<>>, err |-> <<"pdf open">>]
    ELSE IF layer.plainErr THEN [text |-> <<>>, err |-> <<"pdf text">>]
    ELSE IF TrimSpace(layer.plain) = <<>> /\ ~layer.cliErr
    THEN [text |-> layer.cli, err |-> Nil]
    ELSE [text |-> TrimSpace(layer.plain), err |-> Nil]

\* the fallback taken only when the text layer could not be read
NeedsOCROnError(l) == l.err # Nil

\* the condition of ExtractText for the fallback
NeedsOCR(l) == ~(l.err = Nil /\ TrimSpace(l.text) # <<>>)

\* ExtractText: [text, err, tmp, layer, ocrCalls, matches, tried]; layer
\* the calls of ExtractTextFromPDF with what they returned, ocrCalls the
\* number of calls of ExtractTextWithOCR
ExtractText(path, env, tmp) ==
    LET plain == [tmp |-> tmp, layer |-> <<>>, ocrCalls |-> 0,
                  matches |-> <<>>, tried |-> <<>>]
        o == ExtractTextWithOCR(path, env, tmp)
        l == ExtractTextFromPDF(env.layer)
    IN  CASE ToLower(path.ext) \in {".txt", ".md"} ->
                IF env.readErr
                THEN [text |-> <<>>, err |-> <<"read">>] @@ plain
                ELSE [text |-> env.data, err |-> Nil] @@ plain
          [] ToLower(path.ext) = ".pdf" ->
                IF NeedsOCR(l)
                THEN [text |-> o.text, err |-> o.err, tmp |-> o.tmp, layer |-> <<l>>,
                      ocrCalls |-> 1, matches |-> o.matches, tried |-> o.tried]
                ELSE [text |-> l.text, err |-> Nil, tmp |-> tmp, layer |-> <<l>>,
                      ocrCalls |-> 0, matches |-> <<>>, tried |-> <<>>]
          [] ToLower(path.ext) \in {".png", ".jpg", ".jpeg"} ->
                [text |-> o.text, err |-> o.err, tmp |-> o.tmp, layer |-> <<>>,
                 ocrCalls |-> 1, matches |-> o.matches, tried |-> o.tried]
          [] OTHER -> [text |-> <<>>, err |-> <<"unsupported file type">>] @@ plain

\* What the text layer of a PDF can be: pdf.Open fails, reading it fails,
\* or it reads as "", " " or the file's letter and a space, and pdftotext
\* fails or prints " " or the letter and a line feed
LayerAnswers(path) ==
    {[openErr |-> TRUE, plainErr |-> FALSE, plain |-> <<>>, cliErr |-> TRUE, cli |-> <<>>],
     [openErr |-> FALSE, plainErr |-> TRUE, plain |-> <<>>, cliErr |-> TRUE, cli |-> <<>>]}
    \cup {[openErr |-> FALSE, plainErr |-> FALSE, plain |-> t, cliErr |-> c.err, cli |-> c.out] :
            t \in {<<>>, Str(" ", 1), Cat(Str(FileChar(path), 1), Str(" ", 1))},
            c \in {[err |-> TRUE, out |-> <<>>],
                   [err |-> FALSE, out |-> Str(" ", 1)],
                   [err |-> FALSE, out |-> Cat(Str(FileChar(path), 1), Str("\n", 1))]}}

\* the answers to the calls ExtractText does not make for a file
NoAnswers ==
    [readErr |-> TRUE, data |-> <<>>,
     layer |-> [openErr |-> TRUE, plainErr |-> FALSE, plain |-> <<>>, cliErr |-> TRUE, cli |-> <<>>],
     ppmErr |-> TRUE, pages |-> 0, ocr |-> <<>>, img |-> "fail"]

\* What the world can answer the calls of ExtractText for a file with: the
\* content of the file, its text layer, whether pdftoppm fails and the
\* pages it renders, what recognition does with each image
ExtractEnvs(path) ==
    CASE ToLower(path.ext) \in {".txt", ".md"} ->
            {[NoAnswers EXCEPT !.readErr = TRUE]}
            \cup {[NoAnswers EXCEPT !.readErr = FALSE, !.data = t] : t \in IngestTexts}
      [] ToLower(path.ext) = ".pdf" ->
            {[NoAnswers EXCEPT !.layer = l, !.ppmErr = TRUE, !.ocr = f] :
                l \in LayerAnswers(path), f \in [1..MaxPages -> {"fail"}]}
            \cup {[NoAnswers EXCEPT !.layer = l, !.ppmErr = FALSE, !.pages = n, !.ocr = f] :
                    l \in LayerAnswers(path), n \in 0..MaxPages,
                    f \in [1..MaxPages -> PageOutcomes]}
      [] OTHER -> {[NoAnswers EXCEPT !.img = i] : i \in TesseractOutcomes}

\* What ExtractText can return for a file, the temporary location as it is
ExtractOutcomes(path) == {ExtractText(path, env, tmpdir) : env \in ExtractEnvs(path)}

\* What InsertEmbedding can return: the error of DB.Exec, or nil
InsertOutcomes == {Nil, <<"pg">>}

\* InsertEmbedding: the row it sends, with the error it returned
InsertEmbedding(filename, source, content, embedding, err) ==
    [filename |-> filename, source |-> source, content |-> content,
     embedding |-> embedding, err |-> err]

\* the next file of the range
NextFile ==
    /\ fidx' = fidx + 1
    /\ ipc' = "loop"

\* What the loop has of a file: its place in the walk and its name, the
\* text and error of ExtractText, whether EmbedChunks has returned, the
\* chunks, the requests EmbedChunks sent, its vectors and error, the rows
\* given to InsertEmbedding.
FileRecord(k, x) ==
    [k |-> k, file |-> files[k], text |-> x.text, extractErr |-> x.err,
     layer |-> x.layer, ocrCalls |-> x.ocrCalls, matches |-> x.matches, tried |-> x.tried,
     embedded |-> FALSE, chunks |-> <<>>, calls |-> <<>>, embs |-> <<>>,
     embedErr |-> Nil, inserts |-> <<>>]

NoRecord ==
    [k |-> 0, file |-> [name |-> "", ext |-> ""], text |-> <<>>, extractErr |-> Nil,
     layer |-> <<>>, ocrCalls |-> 0, matches |-> <<>>, tried |-> <<>>,
     embedded |-> FALSE, chunks |-> <<>>, calls |-> <<>>, embs |-> <<>>,
     embedErr |-> Nil, inserts |-> <<>>]

\* ExtractText where an error ends the command
IndexExtractFatal ==
    /\ ipc = "loop"
    /\ fidx <= Len(files)
    /\ \E x \in ExtractOutcomes(files[fidx]) :
         /\ rec' = FileRecord(fidx, x)
         /\ tmpdir' = x.tmp
         /\ IF x.err # Nil
            THEN /\ ilog' = ilog \o <<<<"Indexing:", files[fidx]>>, <<"skip file:", files[fidx]>>>>
                 /\ ipc' = "fatal"
                 /\ UNCHANGED fidx
            ELSE /\ ilog' = Append(ilog, <<"Indexing:", files[fidx]>>)
                 /\ ipc' = "embed"
                 /\ UNCHANGED fidx
    /\ UNCHANGED <<files, completed>>

\* log.Println("Indexing:", f); text, err := ingestion.ExtractText(f); on an
\* error the file is skipped
IndexExtract ==
    /\ ipc = "loop"
    /\ fidx <= Len(files)
    /\ \E x \in ExtractOutcomes(files[fidx]) :
         /\ rec' = FileRecord(fidx, x)
         /\ tmpdir' = x.tmp
         /\ IF x.err # Nil
            THEN /\ ilog' = ilog \o <<<<"Indexing:", files[fidx]>>, <<"skip file:", files[fidx]>>>>
                 /\ NextFile
            ELSE /\ ilog' = Append(ilog, <<"Indexing:", files[fidx]>>)
                 /\ ipc' = "embed"
                 /\ UNCHANGED fidx
    /\ UNCHANGED <<files, completed>>

\* chunks := ChunkText(text); embs, err := EmbedChunks(ctx, chunks); on an
\* error the file is skipped
IndexEmbed ==
    /\ ipc = "embed"
    /\ LET chunkList == ChunkText(rec.text)
       IN  \E resps \in EmbedAnswers(Len(chunkList)) :
             LET r == EmbedChunks(chunkList, resps)
             IN  /\ rec' = [rec EXCEPT !.embedded = TRUE, !.chunks = chunkList,
                                       !.calls = r.calls, !.embs = r.out, !.embedErr = r.err]
                 /\ IF r.err # Nil
                    THEN /\ ilog' = Append(ilog, <<"embed error:">>)
                         /\ NextFile
                    ELSE IF Len(chunkList) = 0
                    THEN /\ NextFile
                         /\ UNCHANGED ilog
                    ELSE /\ ipc' = "insert"
                         /\ UNCHANGED <<fidx, ilog>>
    /\ UNCHANGED <<files, completed, tmpdir>>

\* the loop over the chunks left at the first insert that fails
IndexInsertStopAtError ==
    /\ ipc = "insert"
    /\ LET i == Len(rec.inserts) + 1
       IN  \E err \in InsertOutcomes :
                /\ rec' = [rec EXCEPT !.inserts =
                              Append(@, InsertEmbedding(rec.file, "local", rec.chunks[i],
                                                        rec.embs[i], err))]
                /\ ilog' = IF err # Nil THEN Append(ilog, <<"db insert error:">>) ELSE ilog
                /\ IF i = Len(rec.chunks) \/ err # Nil
                   THEN NextFile
                   ELSE UNCHANGED <<fidx, ipc>>
    /\ UNCHANGED <<files, completed, tmpdir>>

\* one pass of the loop over the chunks: InsertEmbedding(f, "local",
\* chunks[i], embs[i]), its error logged
IndexInsert ==
    /\ ipc = "insert"
    /\ LET i == Len(rec.inserts) + 1
       IN  /\ \E err \in InsertOutcomes :
                /\ rec' = [rec EXCEPT !.inserts =
                              Append(@, InsertEmbedding(rec.file, "local", rec.chunks[i],
                                                        rec.embs[i], err))]
                /\ ilog' = IF err # Nil THEN Append(ilog, <<"db insert error:">>) ELSE ilog
           /\ IF i = Len(rec.chunks)
              THEN NextFile
              ELSE UNCHANGED <<fidx, ipc>>
    /\ UNCHANGED <<files, completed, tmpdir>>

\* fmt.Println("Indexing complete.")
IndexComplete ==
    /\ ipc = "loop"
    /\ fidx > Len(files)
    /\ completed' = TRUE
    /\ ipc' = "done"
    /\ UNCHANGED <<files, fidx, rec, ilog, tmpdir>>

\* The lists LoadLocalFiles can return: the files of a directory that
\* holds some files of Paths next to each other, in the order of the walk
Walks ==
    {SubSeq(Paths, p[1], p[2]) :
        p \in {q \in (1..(Len(Paths) + 1)) \X (0..Len(Paths)) :
                    q[2] - q[1] + 1 \in 0..MaxFiles}}

IngestInit ==
    /\ files \in Walks
    /\ tmpdir = {}
    /\ fidx = 1
    /\ ipc = "loop"
    /\ rec = NoRecord
    /\ ilog = <<>>
    /\ completed = FALSE

(***************************************************************************)
(* Properties of the workflow.                                             *)
(***************************************************************************)
\* the nodes that have returned, in order
Ran == [k \in 1..Len(hist) |-> hist[k].node]

\* some node has returned an error
Failed == \E k \in 1..Len(hist) : hist[k].err # Nil

\* RetrieverNode has returned without error, with no document
RetrievedNothing ==
    /\ Len(hist) >= 1
    /\ hist[1].node = "RetrieverNode"
    /\ hist[1].err = Nil
    /\ Docs = <<>>

\* C1: the nodes run in the order Retrieve, Summarize, Critique, Finalize,
\* each at most once; a node is called only after every node before it has
\* returned without error; at most one node is active at any time.
C1_FixedOrder ==
    /\ Ran = SubSeq(Nodes, 1, Len(hist))
    /\ Cardinality(active) <= 1
    /\ active # {} =>
         /\ Len(hist) < Len(Nodes)
         /\ active = {Nodes[Len(hist) + 1]}
         /\ ~Failed

C1_Witness == pc = "done" /\ Ran = Nodes /\ ret = Nil

\* C2: once a node has returned an error it is the last node that runs (no
\* later node, no second run of any node), and RunWorkflow returns exactly
\* that error.
C2_FirstErrorReturned ==
    \A k \in 1..Len(hist) :
        hist[k].err # Nil =>
            /\ k = Len(hist)
            /\ active = {}
            /\ pc \in {"ret", "done"}
            /\ \A j \in 1..Len(hist) : j # k => hist[j].node # hist[k].node
            /\ pc = "done" => ret = hist[k].err

C2_Witness ==
    /\ pc = "done"
    /\ Len(hist) = 2
    /\ hist[2].err = <<"calling ollama", "net">>
    /\ ret = hist[2].err

\* C3 as stated: after a retrieval with zero documents the workflow ends
\* without error and state.Ans is the fixed no-documents message.
C3_AsStated ==
    (pc = "done" /\ RetrievedNothing) => (ret = Nil /\ Ans = NoDocsAnswer)

\* C3 amended: after a retrieval with zero documents the workflow ends
\* without error having run all four nodes; SummarizerNode leaves the fixed
\* message in state.Ans, and CriticNode, finding it shorter than 50 bytes,
\* appends the advisory suffix once: the answer printed and left in
\* state.Ans is the fixed message followed by the suffix.
C3_NoDocsAnswerWithSuffix ==
    (pc = "done" /\ RetrievedNothing) =>
        /\ ret = Nil
        /\ Ran = Nodes
        /\ hist[3].ansIn = NoDocsAnswer
        /\ Ans = NoDocsAnswer \o CriticSuffix
        /\ printed = <<Ans>>

C3_Witness == pc = "done" /\ RetrievedNothing /\ Len(printed) = 1

\* C4: after a retrieval with zero documents no request is ever sent to the
\* generation backend.
C4_NoGenerationCall == RetrievedNothing => genCalls = <<>>

C4_Witness == RetrievedNothing /\ Len(hist) >= 2 /\ idx > Len(Nodes)

\* the generation stream was ended by a fragment with done = true
EndedByDone ==
    /\ fragsRead >= 1
    /\ ~genStream[fragsRead].bad
    /\ genStream[fragsRead].Done

\* C5: a workflow that returns without error has either the no-documents
\* answer or an answer whose stream was ended by the completion signal.
C5_NoPartialAnswer ==
    (pc = "done" /\ ret = Nil) => (Docs = <<>> \/ EndedByDone)

\* the index of the first fragment with Done, the length of the stream when
\* there is none
FirstDone(stream) ==
    IF \E k \in 1..Len(stream) : stream[k].Done
    THEN CHOOSE k \in 1..Len(stream) :
            stream[k].Done /\ \A j \in 1..(k - 1) : ~stream[j].Done
    ELSE Len(stream)

RECURSIVE ConcatResponses(_, _)
\* the texts of the first n fragments, concatenated in order
ConcatResponses(stream, n) ==
    IF n = 0 THEN "" ELSE ConcatResponses(stream, n - 1) \o stream[n].Response

\* SummarizerNode has returned after it was answered with a stream
Streamed ==
    /\ Len(hist) >= 2
    /\ genCalls # <<>>
    /\ hist[2].err # <<"calling ollama", "net">>

\* C6: when every fragment of the stream decodes, SummarizerNode returns
\* with state.Ans the concatenation of the fragments up to and including
\* the first one with done = true (all of them when none has it), and has
\* decoded no fragment after that one.
C6_ConcatUpToDone ==
    (Streamed /\ Len(hist) = 2 /\ \A k \in 1..Len(genStream) : ~genStream[k].bad) =>
        /\ hist[2].err = Nil
        /\ Ans = ConcatResponses(genStream, FirstDone(genStream))
        /\ fragsRead = FirstDone(genStream)

C6_Witness ==
    /\ Streamed
    /\ Len(hist) = 2
    /\ \A k \in 1..Len(genStream) : ~genStream[k].bad
    /\ Len(genStream) = 3
    /\ FirstDone(genStream) = 2
    /\ genStream[3].Response # ""
    /\ Len(Ans) = 49

\* the decoder met a fragment that does not decode
DecodeFailed ==
    /\ Streamed
    /\ fragsRead < Len(genStream)
    /\ genStream[fragsRead + 1].bad
    /\ \A k \in 1..fragsRead : ~genStream[k].Done

\* C7: when a fragment fails to decode SummarizerNode returns an error,
\* neither CriticNode nor AnswerNode runs, RunWorkflow returns that error
\* and state.Ans is what it was before the node.
C7_DecodeErrorKeepsAns ==
    DecodeFailed =>
        /\ hist[2].err # Nil
        /\ Len(hist) = 2
        /\ active = {}
        /\ Ans = hist[2].ansIn
        /\ printed = <<>>
        /\ pc = "done" => ret = hist[2].err

C7_Witness == DecodeFailed /\ pc = "done" /\ fragsRead = 2 /\ Ans = ""

\* the embedding of the query failed
EmbeddingFailed ==
    \/ Query = ""
    \/ /\ embedCalls # <<>>
       /\ embedCalls[1].resp # [kind |-> "ok", dim |-> EmbeddingDim]

\* C8: when RetrieverNode returns an error RunWorkflow returns that error,
\* state.Docs and state.Ans are as they were at the start, no other node
\* runs, the generation backend is never called, and the search is not
\* called when it was the embedding that failed.
C8_RetrieveFailure ==
    (Len(hist) >= 1 /\ hist[1].err # Nil) =>
        /\ Len(hist) = 1
        /\ Docs = <<>>
        /\ Ans = ""
        /\ genCalls = <<>>
        /\ EmbeddingFailed => searchCalls = <<>>
        /\ ~EmbeddingFailed => Len(searchCalls) = 1
        /\ pc = "done" => ret = hist[1].err

C8_Witness ==
    /\ pc = "done"
    /\ Len(hist) = 1
    /\ hist[1].err # Nil
    /\ EmbeddingFailed
    /\ Query # ""

\* C9: after CriticNode an answer that was shorter than 50 bytes is that
\* answer followed by one copy of the suffix, a longer one is unchanged, and
\* CriticNode applied to its own output changes nothing.
C9_CriticOnce ==
    Len(hist) >= 3 =>
        LET before == hist[3].ansIn
        IN  /\ Len(before) < 50 => Ans = before \o CriticSuffix
            /\ Len(before) >= 50 => Ans = before
            /\ CriticAns(Ans) = Ans

C9_Witness == Len(hist) >= 3 /\ Len(hist[3].ansIn) = 49 /\ Len(Ans) = 49 + Len(CriticSuffix)

\* C25: after a successful RetrieverNode state.Docs holds exactly
\* min(TopK, number of stored documents) entries, each the text of a stored
\* document, no stored document twice, in ascending order of distance, and
\* no stored document left out is nearer than one that is returned.
C25_NearestTopK ==
    (Len(hist) >= 1 /\ hist[1].node = "RetrieverNode" /\ hist[1].err = Nil) =>
        /\ Len(Docs) = (IF TopK < Len(table) THEN TopK ELSE Len(table))
        /\ Len(picked) = Len(Docs)
        /\ \A i \in 1..Len(picked) :
             /\ picked[i] \in 1..Len(table)
             /\ Docs[i] = "File: " \o table[picked[i]].Filename \o "\n"
                              \o table[picked[i]].Content
        /\ \A i, j \in 1..Len(picked) :
             /\ i # j => picked[i] # picked[j]
             /\ i < j => Distance(table[picked[i]]) <= Distance(table[picked[j]])
        /\ \A h \in 1..Len(table), i \in 1..Len(picked) :
             (\A j \in 1..Len(picked) : picked[j] # h) =>
                 Distance(table[picked[i]]) <= Distance(table[h])


\* C19: QueryEmbedding of the empty string returns the error "empty query"
\* and sends nothing to the embedding backend, so a run of the workflow with
\* an empty query ends in RetrieverNode with that error: the index is not
\* searched, the generation backend is not called, no other node runs.
C19_EmptyQueryFailsInRetrieve ==
    /\ \A resp \in EmbedResponses :
            /\ QueryEmbedding("", resp).err = <<"empty query">>
            /\ QueryEmbedding("", resp).calls = <<>>
    /\ Query = "" =>
            /\ embedCalls = <<>>
            /\ searchCalls = <<>>
            /\ genCalls = <<>>
            /\ Len(hist) <= 1
            /\ pc \in {"ret", "done"} =>
                    hist = <<[node |-> "RetrieverNode", ansIn |-> "", docsIn |-> <<>>,
                              err |-> <<"empty query">>]>>
            /\ pc = "done" => ret = <<"empty query">>

C19_Witness == Query = "" /\ pc = "done" /\ Len(hist) = 1 /\ ret = <<"empty query">>

(***************************************************************************)
(* Properties of the chunker.                                              *)
(***************************************************************************)
\* a string with no character that is not white space ("" is one)
IsBlank(s) == \A k \in 1..Len(s) : IsSpace(s[k].c)

\* C10: ChunkText returns no empty and no whitespace-only chunk, and no
\* chunk at all for an empty or whitespace-only text.
C10_NoBlankChunk ==
    cpc = "done" =>
        /\ \A k \in 1..Len(chunks) : ~IsBlank(chunks[k])
        /\ IsBlank(text) => chunks = <<>>

\* the smallest integer not below a / b, for a >= 0 and b > 0
CeilDiv(a, b) == (a + b - 1) \div b

\* C11: for a string of length L > max and an overlap below max, splitLong
\* cuts ceil((L - max) / (max - overlap)) + 1 windows and returns one chunk
\* for each, window j (from 0) starting at offset j * (max - overlap).
C11_WindowCount ==
    (cpc = "done" /\ StrLen(text) > spMax /\ spOverlap < spMax) =>
        /\ Len(windows) = CeilDiv(StrLen(text) - spMax, spMax - spOverlap) + 1
        /\ Len(chunks) = Len(windows)
        /\ \A j \in 1..Len(windows) : windows[j].i = (j - 1) * (spMax - spOverlap)

C11_Witness ==
    /\ cpc = "done"
    /\ StrLen(text) > spMax
    /\ spOverlap > 0
    /\ spOverlap < spMax
    /\ Len(windows) >= 3
    /\ (StrLen(text) - spMax) % (spMax - spOverlap) # 0

\* the last o characters of a are the first o characters of b
SharesOverlap(a, b, o) ==
    /\ StrLen(a) >= o
    /\ StrLen(b) >= o
    /\ Slice(a, StrLen(a) - o, StrLen(a)) = Slice(b, 0, o)

\* a text that is one paragraph: no run of two or more newlines
SingleParagraph(t) == \A k \in 1..Len(t) : ~(t[k].c = "\n" /\ t[k].n >= 2)

\* the length of window k (from 1) of a paragraph of length len, cut every
\* 800 characters and 1000 long
WindowLen(len, k) ==
    IF len - (k - 1) * 800 < 1000 THEN len - (k - 1) * 800 ELSE 1000

RECURSIVE RunsLen(_, _, _)
\* the characters of runs a to b of t
RunsLen(t, a, b) == IF a > b THEN 0 ELSE t[a].n + RunsLen(t, a + 1, b)

\* the length of t without its leading and trailing white space
TrimmedLen(t) ==
    LET keep == {k \in 1..Len(t) : ~IsSpace(t[k].c)}
    IN  IF keep = {} THEN 0
        ELSE RunsLen(t, CHOOSE k \in keep : \A j \in keep : k <= j,
                        CHOOSE k \in keep : \A j \in keep : k >= j)

\* C12 as stated: for a text longer than the maximum, every two consecutive
\* chunks of ChunkText but the last two share exactly 200 characters.
C12_AsStated ==
    (cpc = "done" /\ StrLen(text) > 1000) =>
        \A k \in 1..(Len(chunks) - 2) : SharesOverlap(chunks[k], chunks[k + 1], 200)

\* C12 amended: for a text that is one paragraph of trimmed length above
\* the maximum, two consecutive chunks (but the last two) share exactly 200
\* characters when the trimming of the windows removed nothing from either,
\* that is when both are as long as their windows.
C12_OverlapWhenUntrimmed ==
    (cpc = "done" /\ SingleParagraph(text) /\ Len(chunks) >= 2) =>
        \A k \in 1..(Len(chunks) - 2) :
            (/\ StrLen(chunks[k]) = WindowLen(TrimmedLen(text), k)
             /\ StrLen(chunks[k + 1]) = WindowLen(TrimmedLen(text), k + 1))
            => SharesOverlap(chunks[k], chunks[k + 1], 200)

C12_Witness ==
    /\ cpc = "done"
    /\ SingleParagraph(text)
    /\ Len(chunks) = 4
    /\ StrLen(chunks[1]) = 1000
    /\ StrLen(chunks[2]) = 1000
    /\ chunks[1] # chunks[2]
    /\ SharesOverlap(chunks[1], chunks[2], 200)

\* C13: no chunk of ChunkText is longer than 1000.
C13_ChunkAtMostMax ==
    cpc = "done" => \A k \in 1..Len(chunks) : StrLen(chunks[k]) <= 1000

C13_Witness ==
    /\ cpc = "done"
    /\ StrLen(text) > 1000
    /\ \E k \in 1..Len(chunks) : StrLen(chunks[k]) = 1000

\* c is t without its leading and trailing white space
IsTrimOf(c, t) ==
    \/ c = <<>> /\ IsBlank(t)
    \/ \E a \in 1..Len(t), b \in 1..Len(t) :
         /\ a <= b
         /\ c = SubSeq(t, a, b)
         /\ ~IsSpace(t[a].c)
         /\ ~IsSpace(t[b].c)
         /\ \A k \in 1..Len(t) : (k < a \/ k > b) => IsSpace(t[k].c)

\* C14 as stated: for a text shorter than 1000 with no run of two or more
\* newlines, ChunkText returns exactly one chunk, the trimmed text.
C14_AsStated ==
    (cpc = "done" /\ StrLen(text) < 1000 /\ SingleParagraph(text)) =>
        (Len(chunks) = 1 /\ IsTrimOf(chunks[1], text))

\* C14 amended: for such a text with a character that is not white space
\* ChunkText returns exactly one chunk, the trimmed text; for an empty or
\* whitespace-only one it returns no chunk.
C14_OneTrimmedChunk ==
    (cpc = "done" /\ StrLen(text) < 1000 /\ SingleParagraph(text)) =>
        IF IsBlank(text)
        THEN chunks = <<>>
        ELSE Len(chunks) = 1 /\ IsTrimOf(chunks[1], text)

C14_Witness ==
    /\ cpc = "done"
    /\ StrLen(text) < 1000
    /\ SingleParagraph(text)
    /\ Len(chunks) = 1
    /\ Len(text) = 3
    /\ Len(chunks[1]) = 1

\* C15: with an overlap below max the loop of splitLong ends, for the
\* strings and arguments of SplitCalls, ChunkText's calls with 1000 and 200
\* among them: until it has returned it can always take its next pass, and
\* at the head of pass k (from 0) the offset is k * (max - overlap) and
\* below the length of the string, so there are fewer passes than the
\* string has characters; its last window is the first one that reaches
\* the end of the string.
C15_Terminates ==
    /\ (spOverlap < spMax /\ cpc # "done") =>
            /\ cpc \in {"start", "loop"}
            /\ Len(windows) <= StrLen(text)
    /\ (spOverlap < spMax /\ cpc = "loop") =>
            /\ spI = Len(windows) * (spMax - spOverlap)
            /\ spI < StrLen(text)
    /\ (cpc = "done" /\ windows # <<>>) =>
            /\ windows[Len(windows)].end = StrLen(text)
            /\ \A j \in 1..(Len(windows) - 1) : windows[j].end < StrLen(text)

C15_Witness ==
    /\ cpc = "done"
    /\ spMax = 1000
    /\ spOverlap = 200
    /\ Len(windows) >= 4

(***************************************************************************)
(* Properties of the index command.                                        *)
(***************************************************************************)
\* the backend answered the request with an embedding getOllamaEmbedding
\* accepts
EmbedOk(call) == call.resp = [kind |-> "ok", dim |-> EmbeddingDim]

\* the first request of the record that failed, 0 if none did
FirstFailed ==
    IF \A j \in 1..Len(rec.calls) : EmbedOk(rec.calls[j]) THEN 0
    ELSE CHOOSE j \in 1..Len(rec.calls) :
            /\ ~EmbedOk(rec.calls[j])
            /\ \A h \in 1..(j - 1) : EmbedOk(rec.calls[h])

\* C16: EmbedChunks given N >= 1 texts, every request to the backend
\* succeeding, returns no error and N vectors, the i-th the backend's
\* answer for the i-th text, after one request per text, in their order.
C16_OneVectorPerText ==
    LET N == Len(rec.chunks)
    IN  (rec.embedded /\ N >= 1 /\ FirstFailed = 0) =>
            /\ rec.embedErr = Nil
            /\ Len(rec.embs) = N
            /\ Len(rec.calls) = N
            /\ \A i \in 1..N :
                    /\ rec.calls[i].Prompt = rec.chunks[i]
                    /\ rec.embs[i] = Vector(rec.chunks[i], rec.calls[i].resp.dim)

C16_Witness ==
    /\ rec.embedded
    /\ Len(rec.chunks) = 3
    /\ rec.embedErr = Nil
    /\ rec.embs[1] # rec.embs[3]

\* C17: when the request for item i fails EmbedChunks returns an error
\* that names i (counted from 0) and wraps the failure, returns no vector,
\* has sent one request for each item up to i and none after, and the loop
\* of the index command inserts no chunk of that file and goes on.
C17_FailureAtItem ==
    LET i == FirstFailed
    IN  (rec.embedded /\ i # 0) =>
            /\ rec.embedErr = <<"failed embedding chunk", i - 1>>
                                \o getOllamaEmbedding(rec.chunks[i], rec.calls[i].resp).err
            /\ rec.embs = <<>>
            /\ Len(rec.calls) = i
            /\ \A j \in 1..i : rec.calls[j].Prompt = rec.chunks[j]
            /\ rec.inserts = <<>>
            /\ ipc \in {"loop", "done"}
            /\ fidx = rec.k + 1

C17_Witness ==
    /\ rec.embedded
    /\ Len(rec.chunks) = 3
    /\ FirstFailed = 2
    /\ rec.k = 1
    /\ ipc = "done"

\* how far the index command is in the body of its loop
IngestRank ==
    CASE ipc = "loop"   -> 0
      [] ipc = "embed"  -> 1
      [] ipc = "insert" -> 2 + Len(rec.inserts)
      [] OTHER          -> 0

\* how far the index command has come: the file, the step of the body, the
\* chunks inserted
IngestMeasure ==
    IF ipc = "done" THEN <<Len(files) + 2, 0>> ELSE <<fidx, IngestRank>>

\* the files the loop has taken up, from its "Indexing:" lines
Attempted == SelectSeq(ilog, LAMBDA l : l[1] = "Indexing:")

\* the files the loop has taken up are the first files of the walk, each
\* once and in its order
AttemptedInOrder ==
    /\ Len(Attempted) <= Len(files)
    /\ \A k \in 1..Len(Attempted) : Attempted[k] = <<"Indexing:", files[k]>>
    /\ ipc = "loop" => Len(Attempted) = fidx - 1
    /\ ipc \in {"embed", "insert"} => Len(Attempted) = fidx /\ rec.k = fidx

\* a step of the loop is possible wherever it is: at the top there is a next
\* file or the report to print, after the extraction there is the file's
\* text to embed, in the loop over the chunks chunks[i] and embs[i] exist
CanStep ==
    /\ ipc = "loop" => fidx \in 1..(Len(files) + 1)
    /\ ipc = "embed" => rec.extractErr = Nil /\ ~rec.embedded
    /\ ipc = "insert" =>
            /\ Len(rec.inserts) < Len(rec.chunks)
            /\ Len(rec.embs) = Len(rec.chunks)

\* C20: whatever fails for a file (extraction, embedding, an insertion), the
\* loop of the index command goes on: it takes up the files of the walk in
\* order, each once; until "Indexing complete." is printed it can always
\* take a step, every step brings it further, and the report is printed
\* only after every file was taken up.
C20_EveryFileAttempted ==
    /\ [](/\ AttemptedInOrder
          /\ ipc \in {"loop", "embed", "insert", "done"}
          /\ CanStep
          /\ completed <=> ipc = "done"
          /\ ipc = "done" => Len(Attempted) = Len(files))
    /\ [][LET a == IngestMeasure
              b == IngestMeasure'
          IN  b[1] > a[1] \/ (b[1] = a[1] /\ b[2] > a[2])]_vars

C20_Witness ==
    /\ completed
    /\ Len(files) = 2
    /\ ilog = <<<<"Indexing:", files[1]>>, <<"skip file:", files[1]>>,
                <<"Indexing:", files[2]>>, <<"embed error:">>>>

(***************************************************************************)
(* Properties of the extraction.                                           *)
(***************************************************************************)
\* ExtractText has returned for the file of rec, a PDF
ExtractedPdf == rec.k >= 1 /\ ToLower(rec.file.ext) = ".pdf"

\* C21: for a PDF ExtractText reads the text layer once; it calls
\* ExtractTextWithOCR once when that failed or gave no character other than
\* white space, and not at all when it gave one, returning the layer's text.
C21_FallbackOnce ==
    ExtractedPdf =>
        /\ Len(rec.layer) = 1
        /\ (rec.layer[1].err # Nil \/ IsBlank(rec.layer[1].text)) => rec.ocrCalls = 1
        /\ (rec.layer[1].err = Nil /\ ~IsBlank(rec.layer[1].text)) =>
                /\ rec.ocrCalls = 0
                /\ rec.tried = <<>>
                /\ rec.extractErr = Nil
                /\ rec.text = rec.layer[1].text

C21_Witness ==
    /\ ExtractedPdf
    /\ rec.layer[1].err = Nil
    /\ rec.layer[1].text = Str(" ", 1)
    /\ rec.ocrCalls = 1
    /\ rec.tried # <<>>

\* neither the text layer nor the recognition gave any text
NoTextAnywhere ==
    /\ ExtractedPdf
    /\ rec.layer[1].err # Nil \/ IsBlank(rec.layer[1].text)
    /\ \A k \in 1..Len(rec.tried) : rec.tried[k].err # Nil \/ IsBlank(rec.tried[k].text)

\* C22: for a PDF that neither the text layer nor the recognition gives any
\* text for, ExtractText returns an error and the loop of the index command
\* skips the file there: it is not chunked, embedded or inserted.
C22_NoTextIsExtractionError ==
    NoTextAnywhere =>
        /\ rec.extractErr # Nil
        /\ ipc # "embed"
        /\ ~rec.embedded
        /\ rec.inserts = <<>>

\* C23: when ExtractTextWithOCR has returned for a PDF none of the page
\* images it had pdftoppm write is in the temporary location.
C23_NoImageLeft ==
    (ExtractedPdf /\ rec.ocrCalls = 1) =>
        \A img \in tmpdir : img.pdf # rec.file

RECURSIVE JoinRecognized(_, _)
\* the texts of the recognized pages from the k-th on, each followed by a
\* line feed
JoinRecognized(tried, k) ==
    IF k > Len(tried) THEN <<>>
    ELSE IF tried[k].err # Nil THEN JoinRecognized(tried, k + 1)
    ELSE Cat(Cat(tried[k].text, Str("\n", 1)), JoinRecognized(tried, k + 1))

C27_OnlyOwnPages ==
    (ExtractedPdf /\ rec.ocrCalls = 1) =>
        \A k \in 1..Len(rec.tried) : rec.tried[k].img.pdf = rec.file

\* C28: for a file whose chunks were all embedded the index command calls
\* InsertEmbedding once per chunk, in their order, the i-th call with the
\* file's path, "local", chunk i and the vector of chunk i, and goes through
\* all of them whichever insert fails.
C28_OneInsertPerChunk ==
    (rec.embedded /\ rec.embedErr = Nil) =>
        /\ Len(rec.inserts) <= Len(rec.chunks)
        /\ \A i \in 1..Len(rec.inserts) :
                /\ rec.inserts[i].filename = rec.file
                /\ rec.inserts[i].source = "local"
                /\ rec.inserts[i].content = rec.chunks[i]
                /\ rec.inserts[i].embedding = rec.embs[i]
                /\ rec.inserts[i].embedding.of = rec.chunks[i]
        /\ ipc = "insert" => rec.k = fidx
        /\ ipc # "insert" => Len(rec.inserts) = Len(rec.chunks) /\ fidx = rec.k + 1

C28_Witness ==
    /\ rec.embedded
    /\ rec.embedErr = Nil
    /\ ipc = "done"
    /\ Len(rec.inserts) = 3
    /\ rec.inserts[1].err # Nil
    /\ rec.inserts[3].err = Nil

\* C29: for a file whose text is empty or white space only ChunkText gives
\* no chunk, EmbedChunks returns the error "no chunks" without a request to
\* the backend, nothing is inserted, "embed error" is logged and the loop
\* is at the next file.
C29_NoChunksSkipped ==
    (rec.k >= 1 /\ rec.extractErr = Nil /\ IsBlank(rec.text) /\ ipc # "embed") =>
        /\ rec.embedded
        /\ rec.chunks = <<>>
        /\ rec.calls = <<>>
        /\ rec.embedErr = <<"no chunks">>
        /\ rec.inserts = <<>>
        /\ ilog[Len(ilog)] = <<"embed error:">>
        /\ ipc \in {"loop", "done"}
        /\ fidx = rec.k + 1

C29_Witness ==
    /\ rec.k = 2
    /\ rec.extractErr = Nil
    /\ rec.text = Str(" ", 1)
    /\ rec.embedded
    /\ ipc = "done"

\* the backend answered the request with an embedding of another length
\* than EmbeddingDim
WrongDim(call) == call.resp.kind = "ok" /\ call.resp.dim # EmbeddingDim

DimError(call) == <<"expected embedding dim", EmbeddingDim, "got", call.resp.dim>>

\* C18: every vector EmbedChunks or QueryEmbedding returns has EmbeddingDim
\* (768) components and is the backend's answer as it came; an answer of
\* another length is an error that says so, and no vector.  So every vector
\* the index command inserts and every vector the workflow searches with
\* has 768 components.
C18_AllVectorsEmbeddingDim ==
    /\ \A i \in 1..Len(rec.embs) :
            /\ rec.embs[i].dim = EmbeddingDim
            /\ rec.embs[i].dim = rec.calls[i].resp.dim
    /\ \A i \in 1..Len(rec.inserts) : rec.inserts[i].embedding.dim = EmbeddingDim
    /\ \A i \in 1..Len(rec.calls) :
            WrongDim(rec.calls[i]) =>
                /\ rec.embedErr = <<"failed embedding chunk", i - 1>> \o DimError(rec.calls[i])
                /\ rec.embs = <<>>
                /\ rec.inserts = <<>>
    /\ \A j \in 1..Len(searchCalls) :
            /\ searchCalls[j].vec.dim = EmbeddingDim
            /\ searchCalls[j].vec.dim = embedCalls[j].resp.dim
    /\ \A j \in 1..Len(embedCalls) :
            (WrongDim(embedCalls[j]) /\ hist # <<>>) =>
                /\ hist[1].err = DimError(embedCalls[j])
                /\ searchCalls = <<>>

C18_Witness ==
    /\ completed
    /\ Len(files) = 2
    /\ ilog = <<<<"Indexing:", files[1]>>, <<"Indexing:", files[2]>>, <<"embed error:">>>>
    /\ \E i \in 1..Len(rec.calls) : WrongDim(rec.calls[i])

(***************************************************************************)
(* The weather service (mcp-calender/services/weather-service).  Redis is  *)
(* a map from keys to entries that each leave the map when their time to   *)
(* live is over; the clock counts minutes.                                 *)
(***************************************************************************)
\* the cities asked for
Cities == {"london", "paris"}

\* ttl := 10 * time.Minute
CacheTTL == 10

\* the zero *WeatherData
NoData == [City |-> "", Timestamp |-> 0, Source |-> ""]

\* cacheKey := fmt.Sprintf("weather:%s", city)
CacheKey(city) == "weather:" \o city

\* json.Marshal of a WeatherData and json.Unmarshal into one: the bytes
\* hold the fields under their json names
Marshal(data) == [city |-> data.City, timestamp |-> data.Timestamp, source |-> data.Source]

Unmarshal(bytes) == [City |-> bytes.city, Timestamp |-> bytes.timestamp, Source |-> bytes.source]

\* getWeatherFromCache that never finds an entry
getWeatherFromCacheNeverFound(city, redisUp) == [data |-> NoData, err |-> <<"redis: nil">>]

\* getWeatherFromCache: [data, err]; redisClient is never nil, NewClient
\* returning a client whether or not the server answers
getWeatherFromCache(city, redisUp) ==
    IF ~redisUp
    THEN [data |-> NoData, err |-> <<"dial tcp: connection refused">>]
    ELSE IF CacheKey(city) \notin DOMAIN wcache
    THEN [data |-> NoData, err |-> <<"redis: nil">>]
    ELSE [data |-> [Unmarshal(wcache[CacheKey(city)].bytes) EXCEPT !.Source = "cache"],
          err |-> Nil]

\* cacheWeatherData: [cache, err], the map after redisClient.Set and Set's
\* error
cacheWeatherData(city, data, redisUp) ==
    IF ~redisUp
    THEN [cache |-> wcache, err |-> <<"dial tcp: connection refused">>]
    ELSE [cache |-> [k \in DOMAIN wcache \cup {CacheKey(city)} |->
                        IF k = CacheKey(city)
                        THEN [bytes |-> Marshal(data), expires |-> wclock + CacheTTL]
                        ELSE wcache[k]],
          err |-> Nil]

\* what a GET to api.openweathermap.org can come to
ApiOutcomes == {"ok", "neterr", "status", "badjson"}

\* getMockWeatherData
getMockWeatherData(city) == [City |-> city, Timestamp |-> wclock, Source |-> "mock"]

\* getWeatherFromAPI: [data, err, calls], calls the number of requests sent
\* to the external API; without OPENWEATHER_API_KEY it sends none and
\* returns mock data
getWeatherFromAPI(city, out) ==
    IF ~wkey
    THEN [data |-> getMockWeatherData(city), err |-> Nil, calls |-> 0]
    ELSE CASE out = "neterr"  -> [data |-> NoData, err |-> <<"Get: timeout">>, calls |-> 1]
           [] out = "status"  -> [data |-> NoData, calls |-> 1,
                                  err |-> <<"API request failed with status: 404 Not Found">>]
           [] out = "badjson" -> [data |-> NoData, err |-> <<"invalid character">>, calls |-> 1]
           [] out = "ok"      -> [data |-> [City |-> city, Timestamp |-> wclock, Source |-> "api"],
                                  err |-> Nil, calls |-> 1]

\* no request answered yet
NoWeatherResponse ==
    [city |-> "", at |-> 0, status |-> 0, data |-> NoData, cached |-> FALSE,
     redisUp |-> FALSE, cacheErr |-> Nil, apiCalls |-> 0, apiErr |-> Nil, setErr |-> Nil]

\* handleGetWeather for GET /weather?city=<city>: the status and the body
\* written, with what the request met: whether the key was in Redis and
\* Redis answered, the calls made to the external API, the errors
handleGetWeather ==
    /\ \E city \in Cities \cup {""}, getUp \in BOOLEAN, out \in ApiOutcomes, setUp \in BOOLEAN :
        LET c == getWeatherFromCache(city, getUp)
            a == getWeatherFromAPI(city, out)
            s == cacheWeatherData(city, a.data, setUp)
            met == [NoWeatherResponse EXCEPT !.city = city, !.at = wclock]
        IN  IF city = ""
            THEN /\ wresp' = [met EXCEPT !.status = 400]
                 /\ UNCHANGED wcache
            ELSE IF c.err = Nil
            THEN /\ wresp' = [met EXCEPT !.status = 200, !.data = c.data,
                                          !.cached = TRUE, !.redisUp = TRUE]
                 /\ UNCHANGED wcache
            ELSE IF a.err # Nil
            THEN /\ wresp' = [met EXCEPT !.status = 500, !.cacheErr = c.err,
                                          !.cached = CacheKey(city) \in DOMAIN wcache,
                                          !.redisUp = getUp,
                                          !.apiCalls = a.calls, !.apiErr = a.err]
                 /\ UNCHANGED wcache
            ELSE /\ wresp' = [met EXCEPT !.status = 200, !.data = a.data, !.cacheErr = c.err,
                                          !.cached = CacheKey(city) \in DOMAIN wcache,
                                          !.redisUp = getUp,
                                          !.apiCalls = a.calls, !.setErr = s.err]
                 /\ wcache' = s.cache
    /\ UNCHANGED <<wclock, wkey>>

\* a minute passes: Redis drops the entries whose time to live is over
Tick ==
    /\ wclock < MaxClock
    /\ wclock' = wclock + 1
    /\ wcache' = [k \in {j \in DOMAIN wcache : wcache[j].expires > wclock + 1} |-> wcache[k]]
    /\ UNCHANGED <<wkey, wresp>>

\* Redis with no key
NoEntries == [k \in {} |-> [bytes |-> Marshal(NoData), expires |-> 0]]

\* the service started: an empty Redis; OPENWEATHER_API_KEY set or not
WeatherInit ==
    /\ wclock = 0
    /\ wcache = NoEntries
    /\ wkey \in BOOLEAN
    /\ wresp = NoWeatherResponse

WeatherIdle ==
    /\ wclock = 0
    /\ wcache = NoEntries
    /\ wkey = FALSE
    /\ wresp = NoWeatherResponse

\* a request for a city was answered
WeatherAnswered == wresp.status # 0 /\ wresp.city # ""

\* ... and Redis, asked for the city's key, had it
CacheHit == WeatherAnswered /\ wresp.redisUp /\ wresp.cached

\* ... and Redis answered that it has no such key
CacheMiss == WeatherAnswered /\ wresp.redisUp /\ ~wresp.cached

\* ... and Redis did not answer
RedisDown == WeatherAnswered /\ ~wresp.redisUp

\* what the request got from the API is in Redis under the city's key
\* until 10 minutes after the request, and is not there after
StoredWithTTL ==
    IF wclock < wresp.at + CacheTTL
    THEN /\ CacheKey(wresp.city) \in DOMAIN wcache
         /\ wcache[CacheKey(wresp.city)] =
                [bytes |-> Marshal(wresp.data), expires |-> wresp.at + CacheTTL]
    ELSE CacheKey(wresp.city) \notin DOMAIN wcache

\* C26 as stated: a city in the cache is answered from the cache with no
\* call to the external API; a miss makes one call to the API and stores
\* the result under the city's key for 10 minutes; with Redis unavailable
\* the request is answered from the API and does not fail.
C26_AsStated ==
    /\ CacheHit => /\ wresp.status = 200
                   /\ wresp.data.Source = "cache"
                   /\ wresp.apiCalls = 0
    /\ CacheMiss => /\ wresp.apiCalls = 1
                    /\ StoredWithTTL
    /\ RedisDown => /\ wresp.status = 200
                    /\ wresp.data.Source = "api"

\* C26, amended: a city in the cache is answered from the cache with no
\* call to the external API.  Otherwise (a miss, or Redis not answering)
\* the service makes one call to the API when an API key is configured and
\* none when it is not (it then makes up mock data); the request is
\* answered with these data unless the API call failed, whatever Redis
\* does; the data are stored under the city's key for 10 minutes when
\* Redis takes them.  No entry outlives 10 minutes.
C26_CacheThenApi ==
    /\ CacheHit => /\ wresp.status = 200
                   /\ wresp.data.Source = "cache"
                   /\ wresp.data.City = wresp.city
                   /\ wresp.apiCalls = 0
    /\ (CacheMiss \/ RedisDown) =>
            /\ wresp.apiCalls = (IF wkey THEN 1 ELSE 0)
            /\ wresp.status = (IF wresp.apiErr = Nil THEN 200 ELSE 500)
            /\ wresp.status = 200 =>
                    /\ wresp.data.Source = (IF wkey THEN "api" ELSE "mock")
                    /\ wresp.data.Timestamp = wresp.at
                    /\ wresp.setErr = Nil => StoredWithTTL
    /\ \A k \in DOMAIN wcache :
            /\ wclock < wcache[k].expires
            /\ wcache[k].expires = wcache[k].bytes.timestamp + CacheTTL

\* a city answered from the cache some minutes after it was fetched from
\* the API
C26_Witness ==
    /\ CacheHit
    /\ wkey
    /\ wresp.data.Timestamp < wresp.at
    /\ wresp.apiCalls = 0

(***************************************************************************)
(* The MCP server (mcp-calender/services/mcp-server): POST /mcp.           *)
(***************************************************************************)
\* the ids of the requests
RequestIds == {"1", "2", "3"}

\* a nil *MCPError
NoError == [Code |-> 0, Message |-> ""]

\* var serviceEndpoints
serviceEndpoints == {"task-service", "calendar-service", "weather-service"}

\* what the call to a service can come to: the URL does not parse, the
\* request fails, the body cannot be read, a status >= 400, a JSON body, a
\* body that is not JSON, an empty body
ServiceOutcomes == {"badurl", "neterr", "readerr", "http500", "json", "raw", "empty"}

\* callService: the MCPResponse it returns and the request it sent, if any
callService(serviceName, method, path, body, out) ==
    LET sent == <<[service |-> serviceName, method |-> method, path |-> path,
                   body |-> IF body # "nil" /\ method \in {"POST", "PATCH"} THEN body ELSE "nil"]>>
        failed(code, msg, calls) ==
            [resp |-> [ID |-> "", Result |-> "nil", Error |-> [Code |-> code, Message |-> msg]],
             calls |-> calls]
    IN  IF serviceName \notin serviceEndpoints
        THEN failed(-32001, "Service not configured", <<>>)
        ELSE CASE out = "badurl"  -> failed(-32003, "Failed to create request", <<>>)
               [] out = "neterr"  -> failed(-32004, "Service request failed", sent)
               [] out = "readerr" -> failed(-32005, "Failed to read response", sent)
               [] out = "http500" -> failed(-32006, "Service returned error", sent)
               [] out = "json"    -> [resp |-> [ID |-> "", Result |-> "json", Error |-> NoError],
                                      calls |-> sent]
               [] out = "raw"     -> [resp |-> [ID |-> "", Result |-> "raw_response",
                                                Error |-> NoError],
                                      calls |-> sent]
               [] out = "empty"   -> [resp |-> [ID |-> "", Result |-> "nil", Error |-> NoError],
                                      calls |-> sent]

callTaskService(method, path, body, out) == callService("task-service", method, path, body, out)

callCalendarService(method, path, body, out) ==
    callService("calendar-service", method, path, body, out)

callWeatherService(method, path, body, out) ==
    callService("weather-service", method, path, body, out)

\* the requests: Params["name"] is a string or not, Params["arguments"] a
\* map ("args") or absent ("nil"), arguments["city"] a string or absent
\* (then city is "")
McpRequests ==
    [ID : RequestIds, Method : {"tools/list", "tools/call", "ping"},
     hasName : BOOLEAN,
     name : {"get_tasks", "add_task", "get_calendar_events", "get_weather", "no_such_tool"},
     arguments : {"nil", "args"}, city : {"", "london"}]

\* handleToolCall
handleToolCall(req, out) ==
    IF ~req.hasName
    THEN [resp |-> [ID |-> req.ID, Result |-> "nil",
                    Error |-> [Code |-> -32602, Message |-> "Invalid tool name"]],
          calls |-> <<>>]
    ELSE CASE req.name = "get_tasks" -> callTaskService("GET", "/tasks", "nil", out)
           [] req.name = "add_task" -> callTaskService("POST", "/tasks", req.arguments, out)
           [] req.name = "get_calendar_events" ->
                callCalendarService("GET", "/events", req.arguments, out)
           [] req.name = "get_weather" ->
                callWeatherService("GET", "/weather?city=" \o req.city, "nil", out)
           [] OTHER -> [resp |-> [ID |-> req.ID, Result |-> "nil",
                                  Error |-> [Code |-> -32601, Message |-> "Tool not found"]],
                        calls |-> <<>>]

\* handleToolsListMCP
handleToolsListMCP(req) ==
    [resp |-> [ID |-> req.ID, Result |-> "tools", Error |-> NoError], calls |-> <<>>]

\* no request yet, and no response
NoRequest ==
    [ID |-> "", Method |-> "", hasName |-> FALSE, name |-> "", arguments |-> "nil", city |-> ""]

NoResponse == [ID |-> "", Result |-> "nil", Error |-> NoError]

\* handleMCP: the body decodes into an MCPRequest or does not ("syntax": it
\* is not JSON, nothing is decoded; "type": a field has the wrong type, the
\* others are decoded); the response written, and the request sent to a
\* service
handleMCP ==
    \E req \in McpRequests, decode \in {"ok", "syntax", "type"}, out \in ServiceOutcomes :
        LET r == CASE req.Method = "tools/call" -> handleToolCall(req, out)
                   [] req.Method = "tools/list" -> handleToolsListMCP(req)
                   [] OTHER -> [resp |-> [ID |-> req.ID, Result |-> "nil",
                                          Error |-> [Code |-> -32601,
                                                     Message |-> "Method not found"]],
                                calls |-> <<>>]
        IN  IF decode # "ok"
            THEN /\ mreq' = [NoRequest EXCEPT !.ID = IF decode = "type" THEN req.ID ELSE ""]
                 /\ mresp' = [ID |-> IF decode = "type" THEN req.ID ELSE "", Result |-> "nil",
                              Error |-> [Code |-> -32700, Message |-> "Parse error"]]
                 /\ mcalls' = <<>>
            ELSE /\ mreq' = req
                 /\ mresp' = r.resp
                 /\ mcalls' = r.calls

McpInit == mreq = NoRequest /\ mresp = NoResponse /\ mcalls = <<>>

McpIdle == mreq = NoRequest /\ mresp = NoResponse /\ mcalls = <<>>

\* the server answered a request that it decoded
McpAnswered == mreq.Method # ""

\* C30: every response written by the /mcp handler carries the id of the
\* request it answers: for tools/list, for tools/call (the call to the
\* service succeeding or failing, or the tool unknown) and for an unknown
\* method.
C30_ResponseCarriesId == McpAnswered => mresp.ID = mreq.ID

(***************************************************************************)
(* The specifications.                                                     *)
(***************************************************************************)
ChunkIdle == text = <<>> /\ chunks = <<>> /\ cpc = "idle"

SplitIdle == spMax = ChunkMax /\ spOverlap = ChunkOverlap /\ spI = 0 /\ windows = <<>>

IngestIdle ==
    files = <<>> /\ fidx = 1 /\ ipc = "idle" /\ rec = NoRecord /\ ilog = <<>> /\ completed = FALSE
    /\ tmpdir = {}

WorkflowIdle ==
    /\ Query = "" /\ ctx = "background" /\ Docs = <<>> /\ Ans = ""
    /\ idx = 1 /\ pc = "idle" /\ active = {} /\ nodeErr = Nil /\ ret = Nil
    /\ hist = <<>> /\ embedCalls = <<>> /\ searchCalls = <<>> /\ genCalls = <<>>
    /\ genStream = <<>> /\ fragsRead = 0 /\ printed = <<>>
    /\ table = <<>> /\ picked = <<>>

Init == WorkflowInit /\ ChunkIdle /\ SplitIdle /\ IngestIdle /\ WeatherIdle /\ McpIdle

Next ==
    \/ CallNode /\ UNCHANGED <<chVars, spVars, inVars, wxVars, mcpVars>>
    \/ AfterNode /\ UNCHANGED <<chVars, spVars, inVars, wxVars, mcpVars>>
    \/ ReturnNil /\ UNCHANGED <<chVars, spVars, inVars, wxVars, mcpVars>>
    \/ RetrieverNode /\ UNCHANGED <<chVars, spVars, inVars, wxVars, mcpVars>>
    \/ SummarizerNode /\ UNCHANGED <<chVars, spVars, inVars, wxVars, mcpVars>>
    \/ CriticNode /\ UNCHANGED <<chVars, spVars, inVars, wxVars, mcpVars>>
    \/ AnswerNode /\ UNCHANGED <<chVars, spVars, inVars, wxVars, mcpVars>>

Spec == Init /\ [][Next]_vars

\* ChunkText on every text of ChunkTexts
InitChunk == ChunkInit /\ SplitIdle /\ WorkflowIdle /\ IngestIdle /\ WeatherIdle /\ McpIdle

NextChunk == ChunkTextCall /\ UNCHANGED <<wfVars, spVars, inVars, wxVars, mcpVars>>

SpecChunk == InitChunk /\ [][NextChunk]_vars

\* splitLong on every call of SplitCalls
InitSplit == SplitInit /\ WorkflowIdle /\ IngestIdle /\ WeatherIdle /\ McpIdle

NextSplit ==
    \/ SplitLongCall /\ UNCHANGED <<wfVars, inVars, wxVars, mcpVars>>
    \/ SplitLongStep /\ UNCHANGED <<wfVars, inVars, wxVars, mcpVars>>

SpecSplit == InitSplit /\ [][NextSplit]_vars

\* the index command
InitIngest == IngestInit /\ WorkflowIdle /\ ChunkIdle /\ SplitIdle /\ WeatherIdle /\ McpIdle

NextIngest ==
    \/ IndexExtract /\ UNCHANGED <<wfVars, chVars, spVars, wxVars, mcpVars>>
    \/ IndexEmbed /\ UNCHANGED <<wfVars, chVars, spVars, wxVars, mcpVars>>
    \/ IndexInsert /\ UNCHANGED <<wfVars, chVars, spVars, wxVars, mcpVars>>
    \/ IndexComplete /\ UNCHANGED <<wfVars, chVars, spVars, wxVars, mcpVars>>

SpecIngest == InitIngest /\ [][NextIngest]_vars

\* the agent: one run of the index command, or one run of the workflow
InitAgent == Init \/ InitIngest

NextAgent ==
    \/ CallNode /\ UNCHANGED <<chVars, spVars, inVars, wxVars, mcpVars>>
    \/ AfterNode /\ UNCHANGED <<chVars, spVars, inVars, wxVars, mcpVars>>
    \/ ReturnNil /\ UNCHANGED <<chVars, spVars, inVars, wxVars, mcpVars>>
    \/ RetrieverNode /\ UNCHANGED <<chVars, spVars, inVars, wxVars, mcpVars>>
    \/ SummarizerNode /\ UNCHANGED <<chVars, spVars, inVars, wxVars, mcpVars>>
    \/ CriticNode /\ UNCHANGED <<chVars, spVars, inVars, wxVars, mcpVars>>
    \/ AnswerNode /\ UNCHANGED <<chVars, spVars, inVars, wxVars, mcpVars>>
    \/ IndexExtract /\ UNCHANGED <<wfVars, chVars, spVars, wxVars, mcpVars>>
    \/ IndexEmbed /\ UNCHANGED <<wfVars, chVars, spVars, wxVars, mcpVars>>
    \/ IndexInsert /\ UNCHANGED <<wfVars, chVars, spVars, wxVars, mcpVars>>
    \/ IndexComplete /\ UNCHANGED <<wfVars, chVars, spVars, wxVars, mcpVars>>

SpecAgent == InitAgent /\ [][NextAgent]_vars

\* the weather service, with or without an API key
InitWeather ==
    WeatherInit /\ McpIdle /\ WorkflowIdle /\ ChunkIdle /\ SplitIdle /\ IngestIdle

NextWeather ==
    \/ handleGetWeather /\ UNCHANGED <<wfVars, chVars, spVars, inVars, mcpVars>>
    \/ Tick /\ UNCHANGED <<wfVars, chVars, spVars, inVars, mcpVars>>

SpecWeather == InitWeather /\ [][NextWeather]_vars

\* the MCP server
InitMcp ==
    McpInit /\ WeatherIdle /\ WorkflowIdle /\ ChunkIdle /\ SplitIdle /\ IngestIdle

NextMcp == handleMCP /\ UNCHANGED <<wfVars, chVars, spVars, inVars, wxVars>>

SpecMcp == InitMcp /\ [][NextMcp]_vars

====
